---------------------------- MODULE Spec2Model ----------------------------
(***************************************************************************)
(* The AI2 codec of read-gps.c: the frame encoder (write_packet), the byte *)
(* framer (read_loop), the frame validator and splitter                    *)
(* (process_ai2_frame) and the payload dispatch (process_packet).          *)
(*                                                                         *)
(* Bytes are naturals 0..255.  C arrays are modelled as sequences: the C   *)
(* index i is the TLA+ index i+1.                                          *)
(***************************************************************************)
EXTENDS Naturals, Sequences, FiniteSets, TLC

VARIABLES
    wire,       \* bytes the channel will deliver to fgetc(), oldest first
    cmds,       \* commands the writer still has to issue (class, cmd, data)
    written,    \* the packets handed to write(fd, ...), oldest first
    gpsbuf,     \* read_loop: the cells of gpsbuf[] written so far
    bufpos,     \* read_loop: bufpos
    escaping,   \* read_loop: escaping
    out,        \* what the reader has reported: dispatches and diagnostics
    noprocess,  \* the process-wide flag of the same name
    scen,       \* the input of this run: what the channel is and carries
    prev,       \* history: whether read_loop has run an iteration, the byte of
                \* the last one, and bufpos and escaping before it
    chan,       \* the channel: "open", or "closed" when it is at end-of-stream
                \* once the bytes of wire are read
    reader,     \* the thread of read_loop: "running", "done" when read_loop
                \* has returned, "killed" when the process ended under it
    main        \* the main thread: "run", "exited" when main has returned,
                \* "aborted" when the process was aborted

vars == <<wire, cmds, written, gpsbuf, bufpos, escaping, out, noprocess, scen, prev,
          chan, reader, main>>

----------------------------------------------------------------------------
(* Program constants *)

GPSBUF_SIZE == 1024

AI2_MEASUREMENT == 8

AI2_POSITION == 6

AI2_NMEA == 211

AI2_POSITION_EXT == 213

AI2_ASYNC_EVENT == 128

AI2_ASYNC_EVENT_ENG_IDLE == 7

AI2_ASYNC_EVENT_ENG_OFF == 1

AI2_ERROR == 245

DLE == 16

ETX == 3

ACK_CLASS == 2

SIZEOF_POSITION == 31

SIZEOF_POSITION_EXT == 61

SIZEOF_POSITION_SV == 6

SIZEOF_MEASUREMENT_SV == 28

RECEIVER_STATE_OFF == 1

RECEIVER_STATE_IDLE == 2

RECEIVER_STATE_ON == 3

NMEA_MASK_ALL == 63

----------------------------------------------------------------------------
(* Arithmetic helpers *)

U16(n) == n % 65536

\* the sum of the bytes of s (by halves, to keep the evaluation shallow)
RECURSIVE SumSeq(_)
SumSeq(s) ==
    IF Len(s) = 0 THEN 0
    ELSE IF Len(s) = 1 THEN s[1]
    ELSE LET h == Len(s) \div 2
         IN  SumSeq(SubSeq(s, 1, h)) + SumSeq(SubSeq(s, h + 1, Len(s)))

RECURSIVE Pow2(_)
Pow2(k) == IF k = 0 THEN 1 ELSE 2 * Pow2(k - 1)

Range(s) == {s[i] : i \in 1..Len(s)}

----------------------------------------------------------------------------
(* The frame encoder *)

\* append_packet: the byte, and once more when it is 0x10
append_packet(pkt, data) ==
    IF data = DLE THEN pkt \o <<data, data>> ELSE Append(pkt, data)

RECURSIVE append_all(_, _)
append_all(pkt, data) ==
    IF data = <<>> THEN pkt
    ELSE append_all(append_packet(pkt, Head(data)), Tail(data))

\* the uint16_t sum of write_packet
packet_sum(class, cmd, data) ==
    LET len == Len(data) % 65536
    IN  U16(DLE + class + cmd + (len % 256) + (len \div 256) + SumSeq(data))

\* write_packet: the bytes pkt[0..pktpos-1] handed to write()
\* the size of the buffer write_packet allocates for a payload of len bytes
pkt_alloc(len) == 4 + len * 2 + 2

\* the bytes write_packet stores into pkt, in order; pktpos is their number
write_packet(class, cmd, data) ==
    LET len  == Len(data) % 65536
        sum  == packet_sum(class, cmd, data)
        head == <<DLE, class>>
        p1   == append_packet(head, cmd)
        p2   == append_packet(p1, len % 256)
        p3   == append_packet(p2, len \div 256)
        p4   == append_all(p3, data)
    IN  p4 \o <<sum % 256, sum \div 256>> \o <<DLE, ETX>>

----------------------------------------------------------------------------
(* The payload decoders.  A decoder gets the payload (data, len) and yields *)
(* a report: which decoder ran, whether it returned before decoding, the    *)
(* offsets of data[] it read, and what it decoded.  A value read at an      *)
(* offset >= len is not part of the payload: it is reported as              *)
(* "indeterminate".                                                         *)

process_nmea(data, len) ==
    [dec     |-> "nmea",
     skipped |-> FALSE,
     reads   |-> (0..3) \cup (IF len > 4 THEN 4..(len - 1) ELSE {}),
     info    |-> IF len > 4 THEN SubSeq(data, 5, len) ELSE <<>>]

process_position_ext(data, len) ==
    IF len < SIZEOF_POSITION_EXT
    THEN [dec |-> "position_ext", skipped |-> TRUE, reads |-> {}, info |-> <<>>]
    ELSE LET n == (len - SIZEOF_POSITION_EXT) \div SIZEOF_POSITION_SV
         IN  [dec     |-> "position_ext",
              skipped |-> FALSE,
              reads   |-> (0..3) \cup (6..13)
                          \cup {SIZEOF_POSITION_EXT + SIZEOF_POSITION_SV * i : i \in 0..(n - 1)},
              info    |-> [i \in 1..n |->
                             data[SIZEOF_POSITION_EXT + SIZEOF_POSITION_SV * (i - 1) + 1]]]

process_position(data, len) ==
    IF len < SIZEOF_POSITION
    THEN [dec |-> "position", skipped |-> TRUE, reads |-> {}, info |-> <<>>]
    ELSE LET n == (len - SIZEOF_POSITION) \div SIZEOF_POSITION_SV
         IN  [dec     |-> "position",
              skipped |-> FALSE,
              reads   |-> (0..3) \cup (6..15)
                          \cup {SIZEOF_POSITION + SIZEOF_POSITION_SV * i : i \in 0..(n - 1)},
              info    |-> [i \in 1..n |->
                             data[SIZEOF_POSITION + SIZEOF_POSITION_SV * (i - 1) + 1]]]

\* a decoder that counts a trailing partial record as a record
process_measurement_rounds_up(data, len) ==
    IF len < 4
    THEN [dec |-> "measurement", skipped |-> TRUE, reads |-> {}, info |-> <<>>]
    ELSE LET sats == (len - 4 + SIZEOF_MEASUREMENT_SV - 1) \div SIZEOF_MEASUREMENT_SV
         IN  [dec     |-> "measurement",
              skipped |-> FALSE,
              reads   |-> (0..3)
                          \cup UNION {(4 + SIZEOF_MEASUREMENT_SV * i)..(4 + SIZEOF_MEASUREMENT_SV * i + 4)
                                        : i \in 0..(sats - 1)},
              info    |-> [sats   |-> sats,
                           excess |-> ((len - 4) % SIZEOF_MEASUREMENT_SV) # 0]]

process_measurement(data, len) ==
    IF len < 4
    THEN [dec |-> "measurement", skipped |-> TRUE, reads |-> {}, info |-> <<>>]
    ELSE LET sats == (len - 4) \div SIZEOF_MEASUREMENT_SV
         IN  [dec     |-> "measurement",
              skipped |-> FALSE,
              reads   |-> (0..3)
                          \cup UNION {(4 + SIZEOF_MEASUREMENT_SV * i)..(4 + SIZEOF_MEASUREMENT_SV * i + 4)
                                        : i \in 0..(sats - 1)},
              info    |-> [sats   |-> sats,
                           excess |-> ((len - 4) % SIZEOF_MEASUREMENT_SV) # 0]]

process_async_event(data, len) ==
    [dec     |-> "async_event",
     skipped |-> FALSE,
     reads   |-> {0},
     info    |-> IF Len(data) < 1 THEN "indeterminate"
                 ELSE IF data[1] = AI2_ASYNC_EVENT_ENG_IDLE THEN "machine idle"
                 ELSE IF data[1] = AI2_ASYNC_EVENT_ENG_OFF THEN "machine off"
                 ELSE "unknown"]

process_error(data, len) ==
    IF len = 2
    THEN [dec |-> "error", skipped |-> FALSE, reads |-> {0, 1},
          info |-> data[2] * 256 + data[1]]
    ELSE [dec |-> "error", skipped |-> FALSE, reads |-> {}, info |-> len]

process_unknown(data, len) ==
    [dec |-> "unknown", skipped |-> FALSE, reads |-> 0..(len - 1),
     info |-> SubSeq(data, 1, len)]

dump_packet(data, len) ==
    [dec |-> "dump", skipped |-> FALSE, reads |-> 0..(len - 1),
     info |-> SubSeq(data, 1, len)]

\* the switch of process_packet
decode(np, type, data, len) ==
    IF np THEN dump_packet(data, len)
    ELSE CASE type = AI2_MEASUREMENT  -> process_measurement(data, len)
           [] type = AI2_POSITION     -> process_position(data, len)
           [] type = AI2_NMEA         -> process_nmea(data, len)
           [] type = AI2_POSITION_EXT -> process_position_ext(data, len)
           [] type = AI2_ASYNC_EVENT  -> process_async_event(data, len)
           [] type = AI2_ERROR        -> process_error(data, len)
           [] OTHER                   -> process_unknown(data, len)

\* process_packet: one dispatched sub-packet and the report of its decoder
process_packet(np, class, type, data, len) ==
    [ev |-> "packet", class |-> class, type |-> type, data |-> data, len |-> len,
     rep |-> decode(np, type, data, len)]

----------------------------------------------------------------------------
(* The frame validator and splitter *)

\* a splitter that hands a sub-packet that is cut off to process_packet with
\* the bytes that are left
RECURSIVE split_no_cutoff(_, _, _)
split_no_cutoff(np, class, b) ==
    IF Len(b) < 3 THEN <<>>
    ELSE LET type   == b[1]
             sublen == b[3] * 256 + b[2]
             rest   == SubSeq(b, 4, Len(b))
         IN  IF Len(rest) < sublen
             THEN <<process_packet(np, class, type, rest, Len(rest))>>
             ELSE <<process_packet(np, class, type, SubSeq(rest, 1, sublen), sublen)>>
                  \o split_no_cutoff(np, class, SubSeq(rest, sublen + 1, Len(rest)))

\* a splitter that stops after the first sub-packet
split_first_only(np, class, b) ==
    IF Len(b) < 3 THEN <<>>
    ELSE LET type   == b[1]
             sublen == b[3] * 256 + b[2]
             rest   == SubSeq(b, 4, Len(b))
         IN  IF Len(rest) < sublen
             THEN <<[ev |-> "cutoff"]>>
             ELSE <<process_packet(np, class, type, SubSeq(rest, 1, sublen), sublen)>>

\* a splitter that gives up the frame when a decoder returns without decoding
RECURSIVE split_stops_on_skip(_, _, _)
split_stops_on_skip(np, class, b) ==
    IF Len(b) < 3 THEN <<>>
    ELSE LET type   == b[1]
             sublen == b[3] * 256 + b[2]
             rest   == SubSeq(b, 4, Len(b))
             p      == process_packet(np, class, type, SubSeq(rest, 1, sublen), sublen)
         IN  IF Len(rest) < sublen
             THEN <<[ev |-> "cutoff"]>>
             ELSE IF p.rep.skipped
             THEN <<p>>
             ELSE <<p>> \o split_stops_on_skip(np, class, SubSeq(rest, sublen + 1, Len(rest)))

\* the while loop of process_ai2_frame over the bytes after the class byte
RECURSIVE split(_, _, _)
split(np, class, b) ==
    IF Len(b) < 3 THEN <<>>
    ELSE LET type   == b[1]
             sublen == b[3] * 256 + b[2]
             rest   == SubSeq(b, 4, Len(b))
         IN  IF Len(rest) < sublen
             THEN <<[ev |-> "cutoff"]>>
             ELSE <<process_packet(np, class, type, SubSeq(rest, 1, sublen), sublen)>>
                  \o split(np, class, SubSeq(rest, sublen + 1, Len(rest)))

frame_chk(buf) == buf[Len(buf)] * 256 + buf[Len(buf) - 1]

\* a sum that starts at the class byte and leaves out buf[0]
frame_sum_no_marker(buf) == U16(SumSeq(SubSeq(buf, 2, Len(buf) - 2)))

frame_sum(buf) == U16(SumSeq(SubSeq(buf, 1, Len(buf) - 2)))

\* a validator that does not compare the checksum
process_ai2_frame_no_checksum(np, buf) ==
    IF Len(buf) < 4 THEN <<>>
    ELSE IF buf[2] = ACK_CLASS
         THEN <<[ev |-> "ack"]>>
         ELSE split(np, buf[2], SubSeq(buf, 3, Len(buf) - 2))

\* a validator that splits a frame of class 2 like any other
process_ai2_frame_no_ack(np, buf) ==
    IF Len(buf) < 4 THEN <<>>
    ELSE IF frame_chk(buf) # frame_sum(buf)
         THEN <<[ev |-> "mismatch", chk |-> frame_chk(buf), sum |-> frame_sum(buf)]>>
         ELSE split(np, buf[2], SubSeq(buf, 3, Len(buf) - 2))

\* process_ai2_frame(buf, len) with len = Len(buf): the events it reports
process_ai2_frame(np, buf) ==
    IF Len(buf) < 4 THEN <<>>
    ELSE IF frame_chk(buf) # frame_sum(buf)
         THEN <<[ev |-> "mismatch", chk |-> frame_chk(buf), sum |-> frame_sum(buf)]>>
         ELSE IF buf[2] = ACK_CLASS
              THEN <<[ev |-> "ack"]>>
              ELSE split(np, buf[2], SubSeq(buf, 3, Len(buf) - 2))

----------------------------------------------------------------------------
(* The byte framer: one iteration of the loop of read_loop on the byte c.  *)
(* st is [gpsbuf, bufpos, escaping]; the result adds emit, the events of   *)
(* this iteration.                                                         *)

store(buf, pos, c) ==
    IF pos < Len(buf) THEN [buf EXCEPT ![pos + 1] = c] ELSE Append(buf, c)

read_loop_body(np, st, c) ==
    LET esc == IF st.bufpos = 0 THEN FALSE ELSE st.escaping
    IN  IF st.bufpos = 0 /\ c # DLE
        THEN [gpsbuf |-> st.gpsbuf, bufpos |-> 0, escaping |-> FALSE,
              emit |-> <<[ev |-> "noise"]>>]
        ELSE IF st.bufpos = 1 /\ c = ETX
        THEN [gpsbuf |-> st.gpsbuf, bufpos |-> 0, escaping |-> esc,
              emit |-> <<[ev |-> "unexpected_end"]>>]
        ELSE IF (~esc) /\ c = DLE /\ st.bufpos # 0
        THEN [gpsbuf |-> st.gpsbuf, bufpos |-> st.bufpos, escaping |-> TRUE,
              emit |-> <<>>]
        ELSE IF esc /\ c = ETX
        THEN [gpsbuf |-> st.gpsbuf, bufpos |-> 0, escaping |-> esc,
              emit |-> process_ai2_frame(np, SubSeq(st.gpsbuf, 1, st.bufpos))]
        ELSE LET over == st.bufpos = GPSBUF_SIZE
                 pos  == IF over THEN 0 ELSE st.bufpos
             IN  [gpsbuf |-> store(st.gpsbuf, pos, c), bufpos |-> pos + 1,
                  escaping |-> FALSE,
                  emit |-> IF over THEN <<[ev |-> "overlong"]>> ELSE <<>>]

\* a framer that forgets to clear escaping after an escaped byte
read_loop_step_keeps_escaping(np, st, c) ==
    LET s == read_loop_body(np, st, c)
    IN  IF st.bufpos # 0 /\ st.escaping /\ c # ETX
        THEN [s EXCEPT !.escaping = TRUE]
        ELSE s

\* a framer without the test for 0x03 at bufpos 1: the byte is stored
read_loop_step_no_premature_end(np, st, c) ==
    IF st.bufpos = 1 /\ c = ETX /\ ~st.escaping
    THEN [gpsbuf |-> store(st.gpsbuf, 1, c), bufpos |-> 2, escaping |-> FALSE,
          emit |-> <<>>]
    ELSE read_loop_body(np, st, c)

\* a framer without the overlong guard: it stores past the last cell
read_loop_step_no_guard(np, st, c) ==
    IF st.bufpos = GPSBUF_SIZE /\ ~(st.escaping /\ c = ETX) /\ ~(~st.escaping /\ c = DLE)
    THEN [gpsbuf |-> store(st.gpsbuf, st.bufpos, c), bufpos |-> st.bufpos + 1,
          escaping |-> FALSE, emit |-> <<>>]
    ELSE read_loop_body(np, st, c)

read_loop_step(np, st, c) == read_loop_body(np, st, c)

\* read_loop over a whole byte sequence, from the framer state st (by halves,
\* to keep the evaluation shallow)
RECURSIVE read_loop_run(_, _, _)
read_loop_run(np, st, bytes) ==
    IF Len(bytes) = 0
    THEN [gpsbuf |-> st.gpsbuf, bufpos |-> st.bufpos,
          escaping |-> st.escaping, emit |-> <<>>]
    ELSE IF Len(bytes) = 1 THEN read_loop_step(np, st, bytes[1])
    ELSE LET h  == Len(bytes) \div 2
             s1 == read_loop_run(np, st, SubSeq(bytes, 1, h))
             s2 == read_loop_run(np, s1, SubSeq(bytes, h + 1, Len(bytes)))
         IN  [s2 EXCEPT !.emit = s1.emit \o s2.emit]

----------------------------------------------------------------------------
(* The writer: the command sequences of main *)

Cmd(class, cmd, data) == [class |-> class, cmd |-> cmd, data |-> data]

set_receiver_state(state) == Cmd(1, 2, <<state>>)

enable_nmea_reports(mask) == Cmd(1, 229, <<mask, 0, 0, 0>>)

\* write_init: the packets it writes, in order
write_init(nmea) ==
    <<Cmd(0, 245, <<1>>), Cmd(1, 241, <<5>>), set_receiver_state(RECEIVER_STATE_IDLE)>>
    \o (IF nmea
        THEN <<enable_nmea_reports(NMEA_MASK_ALL), set_receiver_state(RECEIVER_STATE_ON)>>
        ELSE <<Cmd(1, 240, <<>>), set_receiver_state(RECEIVER_STATE_IDLE),
               Cmd(1, 237, <<0>>),
               Cmd(1, 6, <<1, 14, 0, 0, 0, 0, 1, 0, 0, 0, 0, 0, 0>>),
               set_receiver_state(RECEIVER_STATE_ON)>>)

----------------------------------------------------------------------------
(* The channel.  A loopback channel delivers to the reader what the writer  *)
(* wrote, with at most one bit flipped on the way (scen.flipidx is the      *)
(* 1-based position of the byte in the packet, 0 for none); a device        *)
(* channel delivers the device's own bytes.                                 *)

FlipBit(b, k) == IF (b \div Pow2(k)) % 2 = 1 THEN b - Pow2(k) ELSE b + Pow2(k)

Flip(pkt, idx, k) ==
    IF idx = 0 THEN pkt ELSE [pkt EXCEPT ![idx] = FlipBit(pkt[idx], k)]

----------------------------------------------------------------------------
(* The writer's command list: what main writes for the mode given on the   *)
(* command line, followed by the commands cmd_from_stdin_to reads.          *)

main_cmds(mode, nmea, stdin) ==
    CASE mode = "init" -> write_init(nmea)
      [] mode = "idle" -> <<Cmd(1, 2, <<2>>)>> \o stdin
      [] mode = "off"  -> <<Cmd(1, 2, <<2>>), Cmd(1, 2, <<1>>)>>
      [] OTHER         -> stdin

\* a main that never waits for the reader
main_joins_never(mode) == FALSE

\* whether main, once its commands are written, waits in pthread_join for
\* the reader (noinit clear) or returns (off, and the modes that set noinit)
main_joins(mode) == mode = "init"

----------------------------------------------------------------------------
(* The device side of the wire: frames as the wire format writes them.     *)

\* every 0x10 of the escaped region doubled (by halves, to keep the
\* evaluation shallow)
RECURSIVE Escaped(_)
Escaped(bs) ==
    IF Len(bs) = 0 THEN <<>>
    ELSE IF Len(bs) = 1 THEN (IF bs[1] = 16 THEN <<16, 16>> ELSE bs)
    ELSE LET h == Len(bs) \div 2
         IN  Escaped(SubSeq(bs, 1, h)) \o Escaped(SubSeq(bs, h + 1, Len(bs)))

\* one sub-packet: type, 16-bit little-endian length, payload
SubBytes(type, declared, data) ==
    <<type, declared % 256, declared \div 256>> \o data

RECURSIVE Body(_)
Body(subs) ==
    IF subs = <<>> THEN <<>>
    ELSE SubBytes(Head(subs).type, Len(Head(subs).data), Head(subs).data)
         \o Body(Tail(subs))

\* a sub-packet header that declares more than the bytes that follow it
CutBytes(cut) ==
    IF cut = <<>> THEN <<>>
    ELSE SubBytes(cut[1].type, cut[1].declared, cut[1].tail)

\* a frame of class and body whose checksum is off by delta
DevFrame(class, body, delta) ==
    LET chk == (16 + class + SumSeq(body) + delta) % 65536
    IN  <<16, class>> \o Escaped(body \o <<chk % 256, chk \div 256>>) \o <<16, 3>>

----------------------------------------------------------------------------
(* Bounds and input alphabets *)

MaxLen == 2

MaxSubs == 2

MaxPay == 68

LongSlack == 2

RECURSIVE SeqsUpTo(_, _)
SeqsUpTo(S, n) ==
    IF n = 0 THEN {<<>>}
    ELSE LET shorter == SeqsUpTo(S, n - 1)
         IN  shorter \cup {Append(s, x) : s \in {t \in shorter : Len(t) = n - 1}, x \in S}

LoopClasses == {0, 1, 2, 3, 16}

LoopCmds == {0, 16, 153, 240}

LoopBytes == {0, 3, 16, 170}

FlipClasses == {1}

FlipCmds == {0, 153}

FlipBytes == {0, 16}

DevClasses == {0, 1, 2}

DevTypes == {AI2_MEASUREMENT, AI2_POSITION, AI2_NMEA, AI2_POSITION_EXT,
             AI2_ASYNC_EVENT, AI2_ERROR, 153}

\* the sub-packets of the multi-sub-packet frames
DevSubs ==
    {[type |-> 153, data |-> <<170, 187>>],
     [type |-> 153, data |-> <<>>],
     [type |-> 153, data |-> <<16>>],
     [type |-> AI2_ASYNC_EVENT, data |-> <<7>>],
     [type |-> AI2_NMEA, data |-> <<1, 0, 0, 0, 36>>],
     [type |-> AI2_ERROR, data |-> <<255, 2>>],
     [type |-> AI2_POSITION, data |-> [i \in 1..(SIZEOF_POSITION - 1) |-> 32 + (i % 8)]],
     [type |-> AI2_POSITION_EXT, data |-> <<>>],
     [type |-> AI2_MEASUREMENT, data |-> <<1, 2, 3>>]}

\* headers that declare more than follows: one byte too many, or far too many
DevCuts ==
    {[type |-> 153, declared |-> Len(t) + d, tail |-> t] :
        t \in {<<>>, <<170>>, <<153, 0, 0>>}, d \in {1, 300}}

\* payload lengths that need both bytes of the length field (0x0100, and
\* 0x0110, whose low byte is escaped on the wire)
BigLens == {256, 272}

\* payload lengths of three whole measurement records, without and with five
\* bytes after them
RecordLens == {4 + SIZEOF_MEASUREMENT_SV * 3, 4 + SIZEOF_MEASUREMENT_SV * 3 + 5}

\* a payload of len bytes, none of them 0x10
Fill(len) == [i \in 1..len |-> 32 + (i % 8)]

\* input that is no well-formed frame: stray bytes, a frame with a bad
\* checksum, a premature end, a frame too short to hold a checksum, a frame
\* cut short before its terminator, a frame ending with escaping set; and
\* terminated frames of one and of three buffered bytes
Malformed ==
    {<<0, 3>>,
     DevFrame(1, Body(<<[type |-> 153, data |-> <<170>>]>>), 1),
     <<16, 3>>,
     <<16, 1, 16, 3>>,
     <<16, 16, 3>>,
     <<16, 1, 2, 16, 3>>,
     <<16, 1, 153>>,
     <<16, 1, 16>>}

\* what follows a frame start and its filler bytes in the long streams
LongFrame == DevFrame(1, Body(<<[type |-> 153, data |-> <<170, 187>>]>>), 0)

LongTails ==
    {<<1, 2>>, <<16, 16, 1>>, <<16, 3>>, <<1>> \o LongFrame, <<1, 16, 3>> \o LongFrame}

\* scen: kind names the family of the input; loopback, flipidx and flipbit
\* describe the channel; mode is the mode of main; class, cmd and data are
\* the command of a loopback run; pre, class, subs, cut, delta and frame are
\* what a device sends: pre, then frame = DevFrame of class, subs and cut;
\* in a long stream fill is the number of filler bytes after the frame start
\* and frame is what follows them
NoScen ==
    [kind |-> "none", loopback |-> FALSE, flipidx |-> 0, flipbit |-> 0,
     mode |-> "noinit", class |-> 0, cmd |-> 0, data |-> <<>>,
     pre |-> <<>>, subs |-> <<>>, cut |-> <<>>, delta |-> 0, frame |-> <<>>,
     fill |-> 0]

----------------------------------------------------------------------------
(* Initial states *)

InitFramer ==
    /\ gpsbuf = <<>>
    /\ bufpos = 0
    /\ escaping \in BOOLEAN     \* read_loop leaves it uninitialised
    /\ out = <<>>
    /\ written = <<>>
    /\ prev = [read |-> FALSE, c |-> 0, bufpos |-> 0, escaping |-> FALSE]
    /\ chan = "open"
    /\ reader = "running"      \* pthread_create comes before the first write
    /\ main = "run"

\* the writer's packet comes back to the reader unchanged
InitLoop ==
    /\ InitFramer
    /\ wire = <<>>
    /\ noprocess = FALSE
    /\ \E class \in LoopClasses, cmd \in LoopCmds, data \in SeqsUpTo(LoopBytes, MaxLen) :
         /\ cmds = main_cmds("noinit", FALSE, <<Cmd(class, cmd, data)>>)
         /\ scen = [NoScen EXCEPT !.kind = "loop", !.loopback = TRUE,
                                  !.class = class, !.cmd = cmd, !.data = data]

\* the writer's packet comes back with one bit flipped before the terminator
InitFlip ==
    /\ InitFramer
    /\ wire = <<>>
    /\ noprocess = FALSE
    /\ \E class \in FlipClasses, cmd \in FlipCmds, data \in SeqsUpTo(FlipBytes, MaxLen) :
         /\ cmds = main_cmds("noinit", FALSE, <<Cmd(class, cmd, data)>>)
         /\ \E idx \in 1..(Len(write_packet(class, cmd, data)) - 2), k \in 0..7 :
              scen = [NoScen EXCEPT !.kind = "flip", !.loopback = TRUE,
                                    !.flipidx = idx, !.flipbit = k,
                                    !.class = class, !.cmd = cmd, !.data = data]

Init == InitLoop \/ InitFlip

\* a device sends one frame of several sub-packets: well-formed, with a bad
\* checksum, or with a last header that declares too much
InitMulti ==
    /\ InitFramer
    /\ noprocess = FALSE
    /\ cmds = main_cmds("noinit", FALSE, <<>>)
    /\ \E class \in DevClasses, subs \in SeqsUpTo(DevSubs, MaxSubs),
          v \in {[cut |-> <<>>, delta |-> d] : d \in {0, 1}}
                \cup {[cut |-> <<c>>, delta |-> 0] : c \in DevCuts} :
         LET f == DevFrame(class, Body(subs) \o CutBytes(v.cut), v.delta)
         IN  /\ wire = f
             /\ scen = [NoScen EXCEPT !.kind = "multi", !.class = class, !.subs = subs,
                                      !.cut = v.cut, !.delta = v.delta, !.frame = f]

\* a device sends one frame of one sub-packet, of every type and length
InitSingle ==
    /\ InitFramer
    /\ noprocess \in BOOLEAN
    /\ cmds = main_cmds("noinit", FALSE, <<>>)
    /\ \E type \in DevTypes, len \in (0..MaxPay) \cup RecordLens \cup BigLens :
         LET subs == <<[type |-> type, data |-> Fill(len)]>>
             f    == DevFrame(1, Body(subs), 0)
         IN  /\ wire = f
             /\ scen = [NoScen EXCEPT !.kind = "single", !.class = 1, !.subs = subs,
                                      !.frame = f]

\* a device sends malformed input and then a well-formed frame, while main
\* writes its commands to the device
InitResync ==
    /\ InitFramer
    /\ noprocess = FALSE
    /\ \E pre \in Malformed, subs \in {<<x>> : x \in DevSubs}, mode \in {"noinit", "idle"} :
         LET f == DevFrame(1, Body(subs), 0)
         IN  /\ wire = pre \o f
             /\ cmds = main_cmds(mode, FALSE, <<>>)
             /\ scen = [NoScen EXCEPT !.kind = "resync", !.mode = mode, !.class = 1,
                                      !.pre = pre, !.subs = subs, !.frame = f]

InitDev == InitMulti \/ InitSingle \/ InitResync

\* a device sends a frame start, filler bytes up to the capacity of gpsbuf or
\* a little less, and a tail
InitLong ==
    /\ InitFramer
    /\ noprocess = FALSE
    /\ \E slack \in 0..LongSlack, tail \in LongTails, mode \in {"noinit", "idle"} :
         LET fill == GPSBUF_SIZE - 1 - slack
         IN  /\ wire = <<16>> \o [i \in 1..fill |-> 1] \o tail
             /\ cmds = main_cmds(mode, FALSE, <<>>)
             /\ scen = [NoScen EXCEPT !.kind = "long", !.mode = mode,
                                      !.fill = fill, !.frame = tail]

\* the modes of main, by the second argument of the command line
Modes == {"init", "idle", "off", "noinit", "noprocess"}

\* what a user types on stdin: nothing, or one command
StdinCmds == {<<>>, <<Cmd(1, 2, <<3>>)>>}

\* what the device sends while main runs: sometimes a premature end, then a
\* frame of one sub-packet
MainPres == {<<>>, <<16, 3>>}

MainSubs ==
    {[type |-> 153, data |-> <<16>>],
     [type |-> AI2_ASYNC_EVENT, data |-> <<7>>],
     [type |-> AI2_ERROR, data |-> <<255, 2>>]}

\* main in each of its modes, against a device that sends a frame and may
\* close the channel
InitMain ==
    /\ InitFramer
    /\ \E mode \in Modes, nmea \in BOOLEAN, stdin \in StdinCmds,
          pre \in MainPres, sub \in MainSubs :
         LET f == DevFrame(1, Body(<<sub>>), 0)
         IN  /\ (mode # "init") => ~nmea
             /\ (mode \in {"init", "off"}) => stdin = <<>>
             /\ noprocess = (mode = "noprocess")
             /\ wire = pre \o f
             /\ cmds = main_cmds(mode, nmea, stdin)
             /\ scen = [NoScen EXCEPT !.kind = "main", !.mode = mode, !.class = 1,
                                      !.pre = pre, !.subs = <<sub>>, !.frame = f]

----------------------------------------------------------------------------
(* Actions *)

\* a writer whose packet builder uses the reader's escaping flag
WritePacket_shares_escaping ==
    /\ main = "run"
    /\ cmds # <<>>
    /\ LET c   == Head(cmds)
           pkt == write_packet(c.class, c.cmd, c.data)
       IN  /\ written' = Append(written, pkt)
           /\ wire' = IF scen.loopback
                      THEN wire \o Flip(pkt, scen.flipidx, scen.flipbit)
                      ELSE wire
    /\ cmds' = Tail(cmds)
    /\ escaping' = FALSE
    /\ UNCHANGED <<gpsbuf, bufpos, out, noprocess, scen, prev, chan, reader, main>>

\* the writer issues its next command: write_packet and write(fd, ...).
\* When write_packet stores more bytes than it allocated, the stores past
\* the allocation are undefined: the call goes on as if they had fit, or
\* the process is aborted (by the allocator's checks in free, or by a
\* checked build at the store).
WritePacket ==
    /\ main = "run"
    /\ cmds # <<>>
    /\ LET c   == Head(cmds)
           pkt == write_packet(c.class, c.cmd, c.data)
       IN  \/ /\ written' = Append(written, pkt)
              /\ wire' = IF scen.loopback
                         THEN wire \o Flip(pkt, scen.flipidx, scen.flipbit)
                         ELSE wire
              /\ cmds' = Tail(cmds)
              /\ UNCHANGED <<reader, main>>
           \/ /\ Len(pkt) > pkt_alloc(Len(c.data))
              /\ main' = "aborted"
              /\ reader' = IF reader = "running" THEN "killed" ELSE reader
              /\ UNCHANGED <<written, wire, cmds>>
    /\ UNCHANGED <<gpsbuf, bufpos, escaping, out, noprocess, scen, prev, chan>>

\* the reader: fgetc() returns the next byte and the loop body runs on it
ReadByte ==
    /\ reader = "running"
    /\ wire # <<>>
    /\ LET s == read_loop_step(noprocess,
                               [gpsbuf |-> gpsbuf, bufpos |-> bufpos, escaping |-> escaping],
                               Head(wire))
       IN  /\ gpsbuf' = s.gpsbuf
           /\ bufpos' = s.bufpos
           /\ escaping' = s.escaping
           /\ out' = out \o s.emit
    /\ prev' = [read |-> TRUE, c |-> Head(wire), bufpos |-> bufpos, escaping |-> escaping]
    /\ wire' = Tail(wire)
    /\ UNCHANGED <<cmds, written, noprocess, scen, chan, reader, main>>

\* the reader: fgetc() returns EOF, the loop ends and read_loop returns
ReadEOF ==
    /\ reader = "running"
    /\ wire = <<>>
    /\ chan = "closed"
    /\ reader' = "done"
    /\ UNCHANGED <<wire, cmds, written, gpsbuf, bufpos, escaping, out, noprocess,
                   scen, prev, chan, main>>

\* the device closes the channel: once the bytes on the wire are read, the
\* channel is at end-of-stream
Close ==
    /\ chan = "open"
    /\ chan' = "closed"
    /\ UNCHANGED <<wire, cmds, written, gpsbuf, bufpos, escaping, out, noprocess,
                   scen, prev, reader, main>>

\* main has written its commands and returns without waiting for the
\* reader: the process ends, and the reader with it
MainReturn ==
    /\ main = "run"
    /\ cmds = <<>>
    /\ ~main_joins(scen.mode)
    /\ main' = "exited"
    /\ reader' = IF reader = "running" THEN "killed" ELSE reader
    /\ UNCHANGED <<wire, cmds, written, gpsbuf, bufpos, escaping, out, noprocess,
                   scen, prev, chan>>

\* main has written its commands and waits in pthread_join: it returns
\* when read_loop has returned
MainJoin ==
    /\ main = "run"
    /\ cmds = <<>>
    /\ main_joins(scen.mode)
    /\ reader = "done"
    /\ main' = "exited"
    /\ UNCHANGED <<wire, cmds, written, gpsbuf, bufpos, escaping, out, noprocess,
                   scen, prev, chan, reader>>

\* the codec: the writer and the reader while main has not returned and the
\* channel is open
Next == WritePacket \/ ReadByte

Spec == Init /\ [][Next]_vars

SpecDev == InitDev /\ [][Next]_vars

SpecLong == InitLong /\ [][Next]_vars

\* the whole program: the codec, the end of the channel and the end of main
NextMain == WritePacket \/ ReadByte \/ ReadEOF \/ Close \/ MainReturn \/ MainJoin

\* the reader thread gets to run, and a pthread_join that can return does
SpecMain ==
    /\ InitMain /\ [][NextMain]_vars
    /\ WF_vars(ReadByte) /\ WF_vars(ReadEOF) /\ WF_vars(MainJoin)

----------------------------------------------------------------------------
(* What the reader has dispatched to process_packet, in order *)

IsPacket(e) == e.ev = "packet"

Sub(e) == [class |-> e.class, type |-> e.type, data |-> e.data]

RECURSIVE MapSub(_)
MapSub(es) == IF es = <<>> THEN <<>> ELSE <<Sub(Head(es))>> \o MapSub(Tail(es))

Dispatched == MapSub(SelectSeq(out, IsPacket))

\* the writer has written its packet and the reader has consumed all of it
LoopDone == scen.loopback /\ cmds = <<>> /\ wire = <<>>

----------------------------------------------------------------------------
(* Claims *)

\* C1: round trip.  The bytes write_packet emits for (class, cmd, payload),
\* fed to read_loop from Idle, end with exactly one sub-packet dispatched,
\* whose class, type and payload are the original class, cmd and payload.
C1_RoundTrip ==
    (scen.kind = "loop" /\ LoopDone)
        => Dispatched = <<[class |-> scen.class, type |-> scen.cmd, data |-> scen.data]>>

WireChecksum(class, cmd, data) ==
    (16 + class + cmd + (Len(data) % 256) + (Len(data) \div 256) + SumSeq(data)) % 65536

WireFrame(class, cmd, data) ==
    <<16, class>>
    \o Escaped(<<cmd, Len(data) % 256, Len(data) \div 256>> \o data
               \o <<WireChecksum(class, cmd, data) % 256,
                    WireChecksum(class, cmd, data) \div 256>>)
    \o <<16, 3>>

\* C4: encoder escaping.  In the bytes write_packet emits, every 0x10 among
\* command, len_lo, len_hi, the payload bytes, checksum_lo and checksum_hi is
\* written twice; the start marker, the class byte and the terminator are
\* written as they are.
C4_EncoderEscaping ==
    \A i \in 1..Len(written) :
        written[i] = WireFrame(scen.class, scen.cmd, scen.data)

\* C2: checksum integrity.  A frame of write_packet with one bit flipped
\* outside its two terminator bytes never has a sub-packet dispatched.
C2_FlipRejected ==
    scen.kind = "flip" => Dispatched = <<>>

\* the events a framer that starts in Idle reports for the bytes bs
Idle == [gpsbuf |-> <<>>, bufpos |-> 0, escaping |-> FALSE]

FreshOut(bs) == read_loop_run(noprocess, Idle, bs).emit

\* C3: resync.  After read_loop has consumed any malformed input, a
\* well-formed frame fed next is decoded exactly as by a framer that starts
\* in Idle: the reader's reports are those of the malformed input followed
\* by those of the frame alone.
C3_Resync ==
    (scen.kind = "resync" /\ wire = <<>>)
        => out = FreshOut(scen.pre) \o FreshOut(scen.frame)

\* (not a claim) the same for the malformed inputs that leave bufpos at 0
ResyncFromIdle ==
    (scen.kind = "resync" /\ wire = <<>>
        /\ read_loop_run(noprocess, Idle, scen.pre).bufpos = 0)
        => out = FreshOut(scen.pre) \o FreshOut(scen.frame)

----------------------------------------------------------------------------
(* Words of the claims below *)

\* read_loop is Collecting, and the byte before this one was a 0x10 read
\* while Collecting and not escaping: the first 0x10 of a pair
AfterFirstDle ==
    prev.read /\ prev.c = 16 /\ prev.bufpos # 0 /\ ~prev.escaping /\ bufpos # 0

\* this step of the reader appends the literal byte 0x10 to the frame
\* buffer, clears escaping and hands no frame to process_ai2_frame
AppendsOneDle ==
    /\ bufpos' = bufpos + 1
    /\ SubSeq(gpsbuf', 1, bufpos') = Append(SubSeq(gpsbuf, 1, bufpos), 16)
    /\ escaping' = FALSE
    /\ out' = out

\* C5 as stated: escape collapse.  Whenever 0x10 0x10 occurs inside a frame
\* body while read_loop is Collecting and not escaping, exactly one literal
\* 0x10 is appended to the frame buffer, escaping is cleared and the frame
\* is not terminated.
C5_EscapeCollapseAlways ==
    [][(ReadByte /\ AfterFirstDle /\ Head(wire) = 16) => AppendsOneDle]_vars

\* C5 as amended: the same while the frame buffer holds fewer than 1024
\* bytes.  (With 1024 bytes in it the overlong guard discards the buffer
\* first and the 0x10 becomes the first byte of a new one.)
C5_EscapeCollapse ==
    [][(ReadByte /\ AfterFirstDle /\ Head(wire) = 16 /\ bufpos < GPSBUF_SIZE)
          => AppendsOneDle]_vars

\* a pair 0x10 0x10 has just been read below the capacity and has left one
\* 0x10 in the buffer
C5_Witness ==
    /\ prev.read /\ prev.c = 16 /\ prev.escaping
    /\ prev.bufpos # 0 /\ prev.bufpos < GPSBUF_SIZE
    /\ bufpos = prev.bufpos + 1
    /\ gpsbuf[bufpos] = 16
    /\ ~escaping

\* the little-endian 16-bit value in the last two of the first n bytes of buf
TrailerLE(buf, n) == buf[n - 1] + 256 * buf[n]

\* the sum modulo 2^16 of the first n bytes of buf
ByteSum(buf, n) == SumSeq(SubSeq(buf, 1, n)) % 65536

\* this step of the reader completes a frame of at least 4 bytes
CompletesFrame ==
    ReadByte /\ escaping /\ Head(wire) = 3 /\ bufpos >= 4

NewEvents == SubSeq(out', Len(out) + 1, Len(out'))

\* C6: checksum failure.  When the last two bytes of a completed frame
\* buffer differ from the sum of the bytes before them, no sub-packet of the
\* frame is dispatched, no ack is reported, and the framer is back in Idle.
C6_ChecksumFailure ==
    [][(CompletesFrame /\ TrailerLE(gpsbuf, bufpos) # ByteSum(gpsbuf, bufpos - 2))
          => /\ bufpos' = 0
             /\ Len(out') >= Len(out)
             /\ SubSeq(out', 1, Len(out)) = out
             /\ \A i \in 1..Len(NewEvents) : NewEvents[i].ev \notin {"packet", "ack"}]_vars

\* a frame with a wrong checksum has just been completed and rejected
C6_Witness ==
    /\ prev.read /\ prev.c = 3 /\ prev.escaping /\ prev.bufpos >= 4
    /\ TrailerLE(gpsbuf, prev.bufpos) # ByteSum(gpsbuf, prev.bufpos - 2)
    /\ bufpos = 0
    /\ out # <<>> /\ out[Len(out)].ev = "mismatch"

\* the sub-packets subs of class class, as process_packet is to see them
Expected(class, subs) ==
    [i \in 1..Len(subs) |->
        [class |-> class, type |-> subs[i].type, data |-> subs[i].data]]

\* the device's frame is checksum-valid, is no ack, and all of it is read
FrameRead ==
    /\ scen.kind \in {"multi", "single"}
    /\ scen.delta = 0
    /\ scen.class # ACK_CLASS
    /\ wire = <<>>

\* C7: cut-off.  In a checksum-valid frame with several sub-packets, when a
\* header declares more bytes than remain, nothing is dispatched for it and
\* for what follows it, and every sub-packet before it has been dispatched
\* with exactly its declared type and payload.
C7_CutOff ==
    (FrameRead /\ scen.cut # <<>>)
        => /\ Len(out) = Len(scen.subs) + 1
           /\ out[Len(out)].ev = "cutoff"
           /\ Dispatched = Expected(scen.class, scen.subs)
           /\ \A i \in 1..Len(scen.subs) : out[i].len = Len(scen.subs[i].data)

\* a frame of two sub-packets and a cut-off third has been read
C7_Witness ==
    /\ FrameRead /\ scen.cut # <<>> /\ Len(scen.subs) = 2
    /\ scen.cut[1].tail # <<>>
    /\ Len(Dispatched) = 2
    /\ out[Len(out)].ev = "cutoff"

KnownTypes == {AI2_MEASUREMENT, AI2_POSITION, AI2_NMEA, AI2_POSITION_EXT,
               AI2_ASYNC_EVENT, AI2_ERROR}

\* C10: sub-packet exactness.  For a checksum-valid frame whose class is not
\* 2 and whose body is a sequence of sub-packets with correct lengths, each
\* sub-packet is dispatched exactly once, in wire order, its payload the
\* declared number of bytes after its header; a sub-packet of an unrecognised
\* type is surfaced with exactly its bytes.
C10_SubPacketExact ==
    (FrameRead /\ scen.cut = <<>>)
        => /\ Len(out) = Len(scen.subs)
           /\ Dispatched = Expected(scen.class, scen.subs)
           /\ \A i \in 1..Len(scen.subs) :
                /\ out[i].len = Len(scen.subs[i].data)
                /\ (scen.subs[i].type \notin KnownTypes /\ ~noprocess)
                      => /\ out[i].rep.dec = "unknown"
                         /\ out[i].rep.info = scen.subs[i].data

\* (not a claim) a sub-packet of 0x0110 bytes has been dispatched whole
BigSubPacketRead ==
    /\ FrameRead /\ scen.kind = "single"
    /\ Len(out) = 1 /\ out[1].ev = "packet" /\ out[1].len = 272

\* a frame of two sub-packets, the second of type 0x99 with payload
\* [0xAA, 0xBB], has been read and both have been dispatched
C10_Witness ==
    /\ FrameRead /\ scen.cut = <<>> /\ Len(scen.subs) = 2
    /\ Len(out) = 2
    /\ out[2].ev = "packet" /\ out[2].type = 153 /\ out[2].data = <<170, 187>>
    /\ out[2].rep.dec = "unknown" /\ out[2].rep.info = <<170, 187>>

\* C8: decoder read bound.  For every sub-packet type and payload length
\* len, the decoder invoked by process_packet reads only the offsets
\* 0..len-1 of its payload.
C8_ReadsInPayload ==
    \A i \in 1..Len(out) :
        out[i].ev = "packet" => out[i].rep.reads \subseteq 0..(out[i].len - 1)

\* this step of the reader stores a byte while the buffer is full
HitsOverlongGuard ==
    /\ ReadByte
    /\ bufpos = GPSBUF_SIZE
    /\ ~(escaping /\ Head(wire) = 3)
    /\ ~(~escaping /\ Head(wire) = 16)

\* C9: overlong guard.  When the frame buffer reaches its capacity of 1024
\* bytes without a terminator, the buffer is discarded and the framer is
\* back in Idle: the byte that hit the guard is not kept as the first byte
\* of a new buffer.
C9_OverlongToIdle ==
    [][HitsOverlongGuard => bufpos' = 0]_vars

----------------------------------------------------------------------------
(* Claims about the decoders and the validator *)

\* the measurement sub-packets the reader has handed to process_measurement
MeasurementReports ==
    {i \in 1..Len(out) : out[i].ev = "packet" /\ out[i].rep.dec = "measurement"}

\* C11: measurement excess data.  For a measurement sub-packet of length
\* len >= 4 process_measurement decodes exactly the whole 28-byte records
\* that fit into len - 4 bytes, reading each of them and nothing after the
\* last, and flags excess data if and only if bytes are left over; for
\* len < 4 it decodes nothing.
C11_MeasurementExcess ==
    /\ (scen.kind = "single" /\ wire = <<>> /\ ~noprocess
            /\ scen.subs[1].type = AI2_MEASUREMENT)
          => /\ MeasurementReports = {1}
             /\ out[1].len = Len(scen.subs[1].data)
    /\ \A i \in MeasurementReports :
          LET len == out[i].len
              r   == out[i].rep
          IN  IF len < 4
              THEN r.skipped /\ r.reads = {} /\ r.info = <<>>
              ELSE /\ ~r.skipped
                   /\ 4 + 28 * r.info.sats <= len
                   /\ len < 4 + 28 * (r.info.sats + 1)
                   /\ r.info.excess <=> (len # 4 + 28 * r.info.sats)
                   /\ \A k \in 0..(r.info.sats - 1) : (4 + 28 * k) \in r.reads
                   /\ \A o \in r.reads : o < 4 + 28 * r.info.sats

\* a measurement sub-packet of 4 + 28*3 + 5 bytes has been decoded: three
\* records and the excess flag
C11_Witness ==
    /\ scen.kind = "single" /\ wire = <<>>
    /\ Len(out) = 1 /\ out[1].ev = "packet"
    /\ out[1].rep.dec = "measurement"
    /\ out[1].len = 4 + 28 * 3 + 5
    /\ out[1].rep.info.sats = 3 /\ out[1].rep.info.excess

\* this step of the reader leaves Idle: a 0x10 read with nothing buffered
LeavesIdle == ReadByte /\ bufpos = 0 /\ Head(wire) = 16

\* the frame this step completes passes the checksum comparison
Accepted == \A i \in 1..Len(NewEvents) : NewEvents[i].ev # "mismatch"

\* the sum modulo 2^16 of the bytes first..last of buf (counted from 1)
SumFrom(buf, first, last) == SumSeq(SubSeq(buf, first, last)) % 65536

\* C12 as stated: start marker not stored.  When read_loop leaves Idle on a
\* 0x10 it is Collecting with an empty buffer, and the sum process_ai2_frame
\* compares with the trailing checksum covers the class byte and the bytes
\* after it, not the start marker.
C12_StartMarkerNotStored ==
    [][/\ LeavesIdle => SubSeq(gpsbuf', 1, bufpos') = <<>>
       /\ CompletesFrame
             => (Accepted <=> TrailerLE(gpsbuf, bufpos) = SumFrom(gpsbuf, 2, bufpos - 2))]_vars

\* C12 as amended: start marker stored.  When read_loop leaves Idle on a
\* 0x10 it stores that byte as the first byte of the buffer (bufpos 1,
\* escaping clear, nothing reported), and the sum process_ai2_frame compares
\* with the trailing checksum covers the first buffered byte, the class byte
\* and the bytes after it up to the checksum.
C12_StartMarkerStored ==
    [][/\ LeavesIdle
             => /\ bufpos' = 1
                /\ gpsbuf'[1] = 16
                /\ ~escaping'
                /\ out' = out
       /\ CompletesFrame
             => (Accepted <=> TrailerLE(gpsbuf, bufpos)
                                = (gpsbuf[1] + SumFrom(gpsbuf, 2, bufpos - 2)) % 65536)]_vars

\* a frame has just been accepted whose checksum counts the start marker at
\* the front of the buffer
C12_Witness ==
    /\ prev.read /\ prev.c = 3 /\ prev.escaping /\ prev.bufpos >= 4
    /\ bufpos = 0
    /\ gpsbuf[1] = 16
    /\ out # <<>> /\ out[Len(out)].ev = "packet"
    /\ TrailerLE(gpsbuf, prev.bufpos) = (16 + SumFrom(gpsbuf, 2, prev.bufpos - 2)) % 65536
    /\ TrailerLE(gpsbuf, prev.bufpos) # SumFrom(gpsbuf, 2, prev.bufpos - 2)

\* C13: ack frame.  For every checksum-valid frame of at least 4 buffered
\* bytes whose class byte is 2, process_ai2_frame reports an ack and nothing
\* else: no sub-packet is dispatched, whatever bytes follow the class byte.
C13_AckFrame ==
    [][(CompletesFrame /\ gpsbuf[2] = 2
          /\ TrailerLE(gpsbuf, bufpos) = ByteSum(gpsbuf, bufpos - 2))
          => /\ SubSeq(out', 1, Len(out)) = out
             /\ Len(NewEvents) = 1
             /\ NewEvents[1].ev = "ack"]_vars

\* a frame of class 2 whose body holds two sub-packets has been read and
\* only an ack has been reported
C13_Witness ==
    /\ scen.kind = "multi" /\ scen.class = 2 /\ scen.delta = 0
    /\ Len(scen.subs) = 2
    /\ wire = <<>>
    /\ Len(out) = 1 /\ out[1].ev = "ack"

\* this step of the reader reads a 0x03 that ends a frame too early: right
\* after the start marker, or as the terminator of a buffer of fewer than 4
\* bytes
EndsShort ==
    /\ ReadByte /\ Head(wire) = 3
    /\ \/ bufpos = 1
       \/ bufpos \in 1..3 /\ escaping

\* the step before this one ended a frame too early
EndedShort ==
    /\ prev.read /\ prev.c = 3
    /\ \/ prev.bufpos = 1
       \/ prev.bufpos \in 1..3 /\ prev.escaping

\* the malformed inputs that are nothing but a frame ended too early
ShortFrames == {<<16, 3>>, <<16, 16, 3>>, <<16, 1, 16, 3>>, <<16, 1, 2, 16, 3>>}

\* C14: premature end and short frames.  A 0x03 directly after the start
\* marker, and any terminated frame whose buffer holds fewer than 4 bytes,
\* dispatch no sub-packet and leave read_loop in Idle with an empty buffer;
\* the next 0x10 starts a new frame, and a well-formed frame that follows is
\* dispatched whole.
C14_ShortFrames ==
    /\ [][/\ EndsShort
                => /\ bufpos' = 0
                   /\ SubSeq(out', 1, Len(out)) = out
                   /\ \A i \in 1..Len(NewEvents) : NewEvents[i].ev \notin {"packet", "ack"}
          /\ (ReadByte /\ EndedShort /\ Head(wire) = 16)
                => /\ bufpos = 0
                   /\ bufpos' = 1 /\ gpsbuf'[1] = 16 /\ ~escaping'
                   /\ out' = out]_vars
    /\ []((scen.kind = "resync" /\ scen.pre \in ShortFrames /\ wire = <<>>)
            => Dispatched = Expected(1, scen.subs))

\* a terminated frame of three buffered bytes has just been dropped, with
\* nothing dispatched, and the framer is in Idle
C14_Witness ==
    /\ prev.read /\ prev.c = 3 /\ prev.escaping /\ prev.bufpos = 3
    /\ bufpos = 0
    /\ Dispatched = <<>>
    /\ wire # <<>>

\* a position, position-extended or measurement sub-packet shorter than its
\* fixed header
ShortSub(s) ==
    \/ s.type = AI2_POSITION     /\ Len(s.data) < 31
    \/ s.type = AI2_POSITION_EXT /\ Len(s.data) < 61
    \/ s.type = AI2_MEASUREMENT  /\ Len(s.data) < 4

\* the device's frame of the sub-packets of scen.subs after the i-th, and of
\* the cut-off header if there is one
LaterFrame(i) ==
    DevFrame(scen.class,
             Body(SubSeq(scen.subs, i + 1, Len(scen.subs))) \o CutBytes(scen.cut), 0)

\* C15: decoder-level length mismatch is local.  When a position,
\* position-extended or measurement sub-packet is shorter than its fixed
\* header (31, 61 and 4 bytes), its decoder returns without a report, and
\* what process_ai2_frame does with the rest of the frame is what it does
\* with a frame that holds only the rest.
C15_ShortSubLocal ==
    (FrameRead /\ scen.kind = "multi")
        => \A i \in 1..Len(scen.subs) :
              ShortSub(scen.subs[i])
                 => /\ Len(out) = Len(scen.subs) + Len(scen.cut)
                    /\ out[i].ev = "packet"
                    /\ out[i].type = scen.subs[i].type
                    /\ out[i].rep.skipped
                    /\ out[i].rep.reads = {}
                    /\ out[i].rep.info = <<>>
                    /\ SubSeq(out, i + 1, Len(out)) = FreshOut(LaterFrame(i))

\* a frame of a measurement sub-packet of 3 bytes and a sub-packet of type
\* 0x99 has been read: the first decoded to nothing, the second dispatched
C15_Witness ==
    /\ FrameRead /\ scen.kind = "multi" /\ scen.cut = <<>>
    /\ Len(scen.subs) = 2
    /\ scen.subs[1].type = AI2_MEASUREMENT /\ ShortSub(scen.subs[1])
    /\ Len(out) = 2
    /\ out[1].rep.dec = "measurement" /\ out[1].rep.skipped
    /\ out[2].ev = "packet" /\ out[2].type = 153 /\ out[2].data = <<170, 187>>

----------------------------------------------------------------------------
(* Claims about the bounds of the buffers *)

\* this step of the reader stores a byte: bufpos moves to a place after a
\* cell
Stores == ReadByte /\ bufpos' # bufpos /\ bufpos' # 0

\* C19: framer buffer bound.  For every input byte stream read_loop stores
\* bytes only at the indices 0..1023 of its buffer of 1024 bytes (the
\* cells written are gpsbuf[0] to gpsbuf[Len(gpsbuf) - 1]), and the length
\* it passes to process_ai2_frame is between 0 and 1024.
C19_FramerBufferBound ==
    /\ [](bufpos \in 0..1024 /\ Len(gpsbuf) <= 1024)
    /\ [][/\ Stores
                => /\ (bufpos' - 1) \in 0..1023
                   /\ gpsbuf'[bufpos'] = Head(wire)
                   /\ Len(gpsbuf') \in {Len(gpsbuf), bufpos'}
          /\ (ReadByte /\ ~Stores) => gpsbuf' = gpsbuf
          /\ (ReadByte /\ escaping /\ bufpos # 0 /\ Head(wire) = 3)
                => bufpos \in 0..1024]_vars

\* the last cell of the buffer has been written and the full buffer of 1024
\* bytes has just been passed to process_ai2_frame
C19_Witness ==
    /\ prev.read /\ prev.c = 3 /\ prev.escaping /\ prev.bufpos = 1024
    /\ Len(gpsbuf) = 1024
    /\ bufpos = 0

\* C18: encoder buffer bound.  For every cmd, every payload length
\* (including 0) and every payload content, the number of bytes write_packet
\* stores into its packet buffer never exceeds the 4 + 2*len + 2 bytes it
\* allocated.
C18_EncoderBufferBound ==
    scen.kind = "loop"
        => \A i \in 1..Len(written) : Len(written[i]) <= 4 + 2 * Len(scen.data) + 2

----------------------------------------------------------------------------
(* Claims about the threads *)

\* the reader thread ends in this step
ReaderEnds == reader = "running" /\ reader' # "running"

\* this step reads end-of-stream: the wire is read to its end and the
\* channel is closed
AtEndOfStream == wire = <<>> /\ chan = "closed"

JoinedAtEndOfStream ==
    /\ scen.kind = "main" /\ scen.mode = "init"
    /\ reader = "done" /\ main = "exited" /\ AtEndOfStream

\* the bytes the channel has delivered to the reader so far
Delivered ==
    SubSeq(scen.pre \o scen.frame, 1, Len(scen.pre \o scen.frame) - Len(wire))

\* C17: reader/writer independence.  Under every interleaving of the reader
\* and the writer no writer step changes the framer state (buffer, bufpos,
\* escaping) or what the reader has reported, so the framer state and the
\* frames and sub-packets decoded are those of read_loop run alone on the
\* bytes the channel has delivered.
C17_Independence ==
    /\ [][(written' # written \/ cmds' # cmds \/ main' # main)
            => UNCHANGED <<gpsbuf, bufpos, escaping, out>>]_vars
    /\ [](scen.kind = "main"
            => LET r == read_loop_run(noprocess, Idle, Delivered)
               IN  /\ out = r.emit
                   /\ gpsbuf = r.gpsbuf
                   /\ bufpos = r.bufpos
                   /\ (Delivered # <<>>) => (escaping = r.escaping))

\* the writer is in the middle of write_init, three packets written and
\* more to write, while the reader is in the middle of a frame, right after
\* an escape byte
C17_Witness ==
    /\ scen.kind = "main" /\ scen.mode = "init"
    /\ Len(written) >= 3 /\ cmds # <<>>
    /\ bufpos >= 3 /\ escaping
    /\ wire # <<>>

=============================================================================
